---- MODULE Spec2Model ----
(***************************************************************************)
(* line-counter (src/src/main.rs): one run of the command-line tool.      *)
(* main checks its arguments, validates the path (existence, directory,   *)
(* size), opens the file, counts its lines and prints the statistics.     *)
(* The file system is the environment: the entry named on the command     *)
(* line may be removed or made unreadable while the run is validating.    *)
(***************************************************************************)
EXTENDS Integers, Sequences, FiniteSets, TLC

(***************************************************************************)
(* Bounds of the model.                                                    *)
(***************************************************************************)
\* longest explicit byte prefix of a file
MaxLen == 3
\* how many times the environment may change the entry during one run
MaxFsEvents == 1
\* longest explicit byte prefix of a file in the runs checked for progress
MaxFairLen == 2

(***************************************************************************)
(* Program constant.                                                       *)
(***************************************************************************)
MAX_FILE_SIZE == 100 * 1024 * 1024

(***************************************************************************)
(* Bytes.  LF is the line terminator; CR, SP and TAB are white space;      *)
(* "a" is an ASCII letter; "xFF" is a byte that occurs in no valid UTF-8   *)
(* sequence.                                                               *)
(***************************************************************************)
Byte == {"LF", "CR", "SP", "TAB", "a", "xFF"}
FillByte == "a"

\* All byte strings of length at most n.
ByteSeqs(n) == UNION {[1..k -> Byte] : k \in 0..n}

(***************************************************************************)
(* Text.  A text is an explicit byte string followed by `fill` copies of   *)
(* FillByte, so that a file of MAX_FILE_SIZE bytes and more can be         *)
(* written down: [bytes |-> <<"a","LF">>, fill |-> 2] stands for a\naa.    *)
(***************************************************************************)
Text(bytes, fill) == [bytes |-> bytes, fill |-> fill]
TextLen(t) == Len(t.bytes) + t.fill

\* char::is_whitespace on the bytes of the model (str::trim strips these)
is_whitespace(b) == b \in {"LF", "CR", "SP", "TAB"}

RECURSIVE trim_start(_)
trim_start(s) ==
    IF s # <<>> /\ is_whitespace(Head(s)) THEN trim_start(Tail(s)) ELSE s

RECURSIVE trim_end(_)
trim_end(s) ==
    IF s # <<>> /\ is_whitespace(s[Len(s)])
    THEN trim_end(SubSeq(s, 1, Len(s) - 1))
    ELSE s

\* str::trim: white space is stripped from both ends; a trailing run of
\* FillByte is not white space, so nothing is stripped before it.
trim(t) ==
    IF t.fill > 0
    THEN Text(trim_start(t.bytes), t.fill)
    ELSE Text(trim_end(trim_start(t.bytes)), 0)

\* str::is_empty
is_empty(t) == TextLen(t) = 0

\* a bug: the line is not trimmed before the test
IsEmptyLine_untrimmed(line) == is_empty(line)

\* the test of line 328
IsEmptyLine(line) == is_empty(trim(line))

(***************************************************************************)
(* BufRead::lines, as count_lines uses it (line 322).  Each call of next  *)
(* reads up to and including the next LF (or to the end of the stream),    *)
(* rejects bytes that are not valid UTF-8 with an InvalidData error, and   *)
(* strips the terminator: a final LF, then a final CR.                     *)
(***************************************************************************)
\* a bug: a carriage return ends a line too
RECURSIVE IndexOfLF_or_CR(_, _)
IndexOfLF_or_CR(s, i) ==
    IF i > Len(s) THEN 0
    ELSE IF s[i] \in {"LF", "CR"} THEN i
    ELSE IndexOfLF_or_CR(s, i + 1)

RECURSIVE IndexOfLF(_, _)
IndexOfLF(s, i) ==
    IF i > Len(s) THEN 0
    ELSE IF s[i] = "LF" THEN i
    ELSE IndexOfLF(s, i + 1)

\* read_until(b'\n'): the bytes taken from the stream r, and what is left
ReadUntilLF(r) ==
    LET i == IndexOfLF(r.bytes, 1) IN
    IF i > 0
    THEN [raw  |-> Text(SubSeq(r.bytes, 1, i), 0),
          rest |-> Text(SubSeq(r.bytes, i + 1, Len(r.bytes)), r.fill)]
    ELSE [raw  |-> r,
          rest |-> Text(<<>>, 0)]

\* str::from_utf8 on the bytes read
valid_utf8(t) == \A i \in 1..Len(t.bytes) : t.bytes[i] # "xFF"

\* Lines::next strips "\n" and then "\r"
StripTerminator(t) ==
    LET n == Len(t.bytes) IN
    IF t.fill = 0 /\ n > 0 /\ t.bytes[n] = "LF"
    THEN IF n > 1 /\ t.bytes[n - 1] = "CR"
         THEN Text(SubSeq(t.bytes, 1, n - 2), 0)
         ELSE Text(SubSeq(t.bytes, 1, n - 1), 0)
    ELSE t

(***************************************************************************)
(* Errors.  A LineCounterError is a record with its variant and fields;   *)
(* a std::io::Error is a record with its kind; an anyhow::Error is the    *)
(* root error with the context messages wrapped around it.                *)
(***************************************************************************)
LineCounterError(variant, path, size, cause) ==
    [type |-> "LineCounterError", variant |-> variant, path |-> path,
     size |-> size, cause |-> cause]
FileNotFound(path)       == LineCounterError("FileNotFound", path, 0, "")
FileReadError(path)      == LineCounterError("FileReadError", path, 0, "")
IsDirectory(path)        == LineCounterError("IsDirectory", path, 0, "")
PermissionDenied(path)   == LineCounterError("PermissionDenied", path, 0, "")
FileTooLarge(path, size) == LineCounterError("FileTooLarge", path, size, "")
MissingArgument          == LineCounterError("MissingArgument", "", 0, "")
\* IoError(#[from] std::io::Error): the variant that wraps an io::Error
IoError(kind)            == LineCounterError("IoError", "", 0, kind)
\* a std::io::Error of the given io::ErrorKind
io_Error(kind) ==
    [type |-> "std::io::Error", variant |-> kind, path |-> "", size |-> 0,
     cause |-> ""]

\* LineCounterError.into(): an anyhow::Error without context
Into(e) == [root |-> e, context |-> <<>>]
\* Context::with_context on a failed result
WithContext(e, what, arg) == [root |-> e, context |-> <<[what |-> what, arg |-> arg]>>]

NoError == [root |-> [type |-> "none", variant |-> "none", path |-> "", size |-> 0,
                      cause |-> ""],
            context |-> <<>>]

(***************************************************************************)
(* LineStats (lines 260-297).                                              *)
(***************************************************************************)
LineStats_new(total_lines, non_empty_lines, empty_lines) ==
    [total_lines |-> total_lines,
     non_empty_lines |-> non_empty_lines,
     empty_lines |-> empty_lines]

(***************************************************************************)
(* f64 values, as exact fractions; NaN is what 0.0 / 0.0 gives and         *)
(* infinity what x / 0.0 gives for x > 0.                                  *)
(***************************************************************************)
F64(num, den) == [class |-> "finite", num |-> num, den |-> den]
F64NaN == [class |-> "NaN", num |-> 0, den |-> 1]
F64Inf == [class |-> "inf", num |-> 1, den |-> 1]

F64Div(a, b) ==
    IF b = 0 THEN (IF a = 0 THEN F64NaN ELSE F64Inf) ELSE F64(a, b)

F64Mul(x, k) ==
    IF x.class = "finite" THEN F64(x.num * k, x.den) ELSE x

\* a bug: the division is made whatever total_lines is
empty_percentage_unguarded(stats) ==
    F64Mul(F64Div(stats.empty_lines, stats.total_lines), 100)

\* LineStats::empty_percentage (lines 290-296)
empty_percentage(stats) ==
    IF stats.total_lines = 0
    THEN F64(0, 1)
    ELSE F64Mul(F64Div(stats.empty_lines, stats.total_lines), 100)

\* "{:.1}": the value in tenths, rounded to nearest, ties to even
FormatOneDecimal(x) ==
    IF x.class # "finite" THEN [class |-> x.class, tenths |-> 0]
    ELSE LET q == (10 * x.num) \div x.den
             r == (10 * x.num) % x.den
         IN [class |-> "finite",
             tenths |-> IF 2 * r > x.den \/ (2 * r = x.den /\ q % 2 = 1)
                        THEN q + 1 ELSE q]

(***************************************************************************)
(* The file system: one path, naming nothing, a directory or a file.       *)
(***************************************************************************)
Paths == {"in.txt"}
ProgramName == "line-counter"

NoEntry == [kind |-> "absent", content |-> Text(<<>>, 0), readable |-> FALSE]
DirEntry == [kind |-> "dir", content |-> Text(<<>>, 0), readable |-> TRUE]
FileEntry(content) == [kind |-> "file", content |-> content, readable |-> TRUE]

\* a file is up to MaxLen explicit bytes, then no filler or MAX_FILE_SIZE
\* bytes of it: sizes 0..MaxLen and MAX_FILE_SIZE..MAX_FILE_SIZE + MaxLen
Fills == {0, MAX_FILE_SIZE}
Contents == {Text(b, f) : b \in ByteSeqs(MaxLen), f \in Fills}
Entries == {NoEntry, DirEntry} \cup {FileEntry(c) : c \in Contents}

\* a bug: the existence check never fails
exists_always(entry) == TRUE

\* Path::exists (line 173): fs::metadata(path).is_ok()
exists(entry) == entry.kind # "absent"
\* Path::is_dir (line 194)
is_dir(entry) == entry.kind = "dir"
\* Metadata::len (lines 218, 221, 354)
metadata_len(entry) == TextLen(entry.content)
\* a bug: a file of exactly MAX_FILE_SIZE bytes is refused
ExceedsLimit_ge(len) == len >= MAX_FILE_SIZE
\* a bug: no file is refused
ExceedsLimit_never(len) == FALSE

\* the comparison of line 218
ExceedsLimit(len) == len > MAX_FILE_SIZE

\* File::open (line 241): the io::ErrorKind of its failure, or "Ok".  An
\* open of an existing readable file may still fail for another reason
\* (`other`: too many open files, an I/O error of the device, ...).
FileOpen(entry, other) ==
    IF entry.kind = "absent" THEN "NotFound"
    ELSE IF ~entry.readable THEN "PermissionDenied"
    ELSE IF other THEN "Other"
    ELSE "Ok"

\* a bug: every failure of the open is reported as FileReadError
OpenErrorMap_unclassified(kind, path) == FileReadError(path)

\* the match of lines 242-252
OpenErrorMap(kind, path) ==
    IF kind = "NotFound" THEN FileNotFound(path)
    ELSE IF kind = "PermissionDenied" THEN PermissionDenied(path)
    ELSE FileReadError(path)

(***************************************************************************)
(* State.                                                                  *)
(***************************************************************************)
VARIABLES
    args,             \* std::env::args(): the program name, then the arguments
    fs,               \* the file system: Paths -> entry
    fs_events,        \* how many times the environment has changed fs
    pc,               \* where main is
    metadata,         \* <<>>, or <<[len |-> n]>> once validate_file_size returned it
    reader,           \* <<>>, or <<rest>>: the open file and what is left to read
    total_lines,      \* the three counters of count_lines
    empty_lines,
    non_empty_lines,
    line_stats,       \* <<>>, or <<LineStats>> once count_lines returned Ok
    stdout,           \* what has been printed to standard output
    stderr,           \* what has been printed to standard error
    result,           \* <<>>, or <<r>>: what main returned
    trace,            \* what the run has asked of the file system, in order
    run,              \* 1 in the first run of the program, 2 in the second
    previous          \* <<>>, or <<o>>: how the first run ended

vars == <<args, fs, fs_events, pc, metadata, reader, total_lines, empty_lines,
          non_empty_lines, line_stats, stdout, stderr, result, trace, run,
          previous>>

Ok == [ok |-> TRUE, err |-> NoError]
Err(e) == [ok |-> FALSE, err |-> e]

\* the exit status of a main that returns Result<()> (line 114)
ExitStatus(r) == IF r.ok THEN 0 ELSE 1

file_path_str == args[2]

Event(tag, val) == [tag |-> tag, val |-> val]
Asked(op, entry, answer) == [op |-> op, entry |-> entry, answer |-> answer]

Init ==
    /\ args \in {<<ProgramName>>} \cup {<<ProgramName, p>> : p \in Paths}
    /\ fs \in [Paths -> Entries]
    /\ fs_events = 0
    /\ pc = "main"
    /\ metadata = <<>>
    /\ reader = <<>>
    /\ total_lines = 0
    /\ empty_lines = 0
    /\ non_empty_lines = 0
    /\ line_stats = <<>>
    /\ stdout = <<>>
    /\ stderr = <<>>
    /\ result = <<>>
    /\ trace = <<>>
    /\ run = 1
    /\ previous = <<>>

\* main returns Err(e): the runtime prints the error and exits
Return(r) ==
    /\ pc' = "exit"
    /\ result' = <<r>>
    /\ stderr' = IF r.ok THEN stderr ELSE Append(stderr, Event("Error", r.err.root.variant))

\* a bug: the example line is missing
print_usage_help_no_example(out) ==
    out \o <<Event("missing", ""), Event("usage", args[1])>>

\* print_usage_help (lines 155-159)
print_usage_help(out) ==
    out \o <<Event("missing", ""), Event("usage", args[1]), Event("example", args[1])>>

\* lines 115-124
Main ==
    /\ pc = "main"
    /\ IF Len(args) < 2
       THEN /\ pc' = "exit"
            /\ result' = <<Err(Into(MissingArgument))>>
            /\ stderr' = Append(print_usage_help(stderr), Event("Error", "MissingArgument"))
       ELSE /\ pc' = "validate_file_exists"
            /\ UNCHANGED <<result, stderr>>
    /\ UNCHANGED <<args, run, previous, fs, fs_events, metadata, reader, total_lines, empty_lines,
                   non_empty_lines, line_stats, stdout, trace>>

\* validate_file_exists (lines 172-180), called at line 127
ValidateFileExists ==
    /\ pc = "validate_file_exists"
    /\ LET entry == fs[file_path_str] IN
       /\ trace' = Append(trace, Asked("exists", entry, entry.kind))
       /\ IF ~exists(entry)
          THEN Return(Err(Into(FileNotFound(file_path_str))))
          ELSE /\ pc' = "validate_not_directory"
               /\ UNCHANGED <<result, stderr>>
    /\ UNCHANGED <<args, run, previous, fs, fs_events, metadata, reader, total_lines, empty_lines,
                   non_empty_lines, line_stats, stdout>>

\* validate_not_directory (lines 193-201), called at line 130
ValidateNotDirectory ==
    /\ pc = "validate_not_directory"
    /\ LET entry == fs[file_path_str] IN
       /\ trace' = Append(trace, Asked("is_dir", entry, entry.kind))
       /\ IF is_dir(entry)
          THEN Return(Err(Into(IsDirectory(file_path_str))))
          ELSE /\ pc' = "validate_file_size"
               /\ UNCHANGED <<result, stderr>>
    /\ UNCHANGED <<args, run, previous, fs, fs_events, metadata, reader, total_lines, empty_lines,
                   non_empty_lines, line_stats, stdout>>

\* validate_file_size (lines 214-227), called at line 133
ValidateFileSize ==
    /\ pc = "validate_file_size"
    /\ LET entry == fs[file_path_str] IN
       /\ trace' = Append(trace, Asked("metadata", entry, entry.kind))
       /\ IF ~exists(entry)
          THEN /\ Return(Err(WithContext(io_Error("NotFound"), "metadata", file_path_str)))
               /\ UNCHANGED metadata
          ELSE IF ExceedsLimit(metadata_len(entry))
          THEN /\ Return(Err(Into(FileTooLarge(file_path_str, metadata_len(entry)))))
               /\ UNCHANGED metadata
          ELSE /\ metadata' = <<[len |-> metadata_len(entry)]>>
               /\ pc' = "open_file"
               /\ UNCHANGED <<result, stderr>>
    /\ UNCHANGED <<args, run, previous, fs, fs_events, reader, total_lines, empty_lines,
                   non_empty_lines, line_stats, stdout>>

\* lines 135-139: the processing line, open_file_with_error_handling
\* (lines 240-254) and BufReader::new
OpenFile ==
    /\ pc = "open_file"
    /\ \E other \in BOOLEAN :
        LET entry == fs[file_path_str]
            opened == FileOpen(entry, other)
        IN
        /\ stdout' = Append(stdout, Event("processing", file_path_str))
        /\ trace' = Append(trace, Asked("open", entry, opened))
        /\ IF opened # "Ok"
           THEN /\ Return(Err(WithContext(OpenErrorMap(opened, file_path_str),
                                          "open", file_path_str)))
                /\ UNCHANGED reader
           ELSE /\ reader' = Append(reader, entry.content)
                /\ pc' = "count_lines"
                /\ UNCHANGED <<result, stderr>>
    /\ UNCHANGED <<args, run, previous, fs, fs_events, metadata, total_lines, empty_lines,
                   non_empty_lines, line_stats>>

(***************************************************************************)
(* count_lines (lines 317-336).                                            *)
(***************************************************************************)
\* a bug: the pass ends at the first line that is empty
LinesNext_until_blank(rest, fail) ==
    IF fail
    THEN [tag |-> "Err", kind |-> "Other", line |-> Text(<<>>, 0), rest |-> rest]
    ELSE IF TextLen(rest) = 0 \/ TextLen(StripTerminator(ReadUntilLF(rest).raw)) = 0
    THEN [tag |-> "None", kind |-> "", line |-> Text(<<>>, 0), rest |-> rest]
    ELSE LET got == ReadUntilLF(rest) IN
         IF ~valid_utf8(got.raw)
         THEN [tag |-> "Err", kind |-> "InvalidData", line |-> Text(<<>>, 0), rest |-> got.rest]
         ELSE [tag |-> "Ok", kind |-> "", line |-> StripTerminator(got.raw), rest |-> got.rest]

\* Lines::next on what is left of the stream; `fail` is a failing read
LinesNext(rest, fail) ==
    IF fail
    THEN [tag |-> "Err", kind |-> "Other", line |-> Text(<<>>, 0), rest |-> rest]
    ELSE IF TextLen(rest) = 0
    THEN [tag |-> "None", kind |-> "", line |-> Text(<<>>, 0), rest |-> rest]
    ELSE LET got == ReadUntilLF(rest) IN
         IF ~valid_utf8(got.raw)
         THEN [tag |-> "Err", kind |-> "InvalidData", line |-> Text(<<>>, 0), rest |-> got.rest]
         ELSE [tag |-> "Ok", kind |-> "", line |-> StripTerminator(got.raw), rest |-> got.rest]

\* a bug: the file stays open after count_lines
Drop_leak(r) == r

\* the reader, moved into count_lines (line 142), goes out of scope when
\* count_lines returns (lines 324 and 335): its file is closed
Drop(r) == Tail(r)

\* a bug: the counters are not set to zero
CountLinesEnter_uninitialised ==
    /\ pc = "count_lines"
    /\ pc' = "count_lines_loop"
    /\ UNCHANGED <<args, run, previous, fs, fs_events, metadata, reader, line_stats,
                   stdout, stderr, result, trace, total_lines, empty_lines,
                   non_empty_lines>>

\* lines 318-320
CountLinesEnter ==
    /\ pc = "count_lines"
    /\ total_lines' = 0
    /\ empty_lines' = 0
    /\ non_empty_lines' = 0
    /\ pc' = "count_lines_loop"
    /\ UNCHANGED <<args, run, previous, fs, fs_events, metadata, reader, line_stats, stdout,
                   stderr, result, trace>>

\* a bug: an empty line is counted in total_lines only
CountLine_no_else(c, line) ==
    [total_lines |-> c.total_lines + 1,
     empty_lines |-> c.empty_lines,
     non_empty_lines |-> IF IsEmptyLine(line) THEN c.non_empty_lines
                         ELSE c.non_empty_lines + 1]

\* lines 326-332: the counters after one more line
CountLine(c, line) ==
    [total_lines |-> c.total_lines + 1,
     empty_lines |-> IF IsEmptyLine(line) THEN c.empty_lines + 1 ELSE c.empty_lines,
     non_empty_lines |-> IF IsEmptyLine(line) THEN c.non_empty_lines
                         ELSE c.non_empty_lines + 1]

\* a bug: the error of the item is dropped, not returned
LineError_swallowed(kind, line_number) == Ok

\* lines 323-324: what `?` returns for an item that is an error, under the
\* context that names the line
LineError(kind, line_number) ==
    Err(WithContext(io_Error(kind), "read_line", line_number + 1))

Counters ==
    [total_lines |-> total_lines, empty_lines |-> empty_lines,
     non_empty_lines |-> non_empty_lines]

\* one iteration of the loop of line 322 whose item is a line
CountLinesLine ==
    /\ pc = "count_lines_loop"
    /\ LET next == LinesNext(reader[1], FALSE)
           c == CountLine(Counters, next.line)
       IN
       /\ next.tag = "Ok"
       /\ total_lines' = c.total_lines
       /\ empty_lines' = c.empty_lines
       /\ non_empty_lines' = c.non_empty_lines
       /\ reader' = <<next.rest>>
       /\ trace' = Append(trace, Asked("read", fs[file_path_str], "Ok"))
    /\ UNCHANGED <<args, run, previous, fs, fs_events, pc, metadata, line_stats, stdout, stderr,
                   result>>

\* one iteration whose item is an error: a read failed (`fail`), or the
\* bytes read are not valid UTF-8; count_lines returns and drops the reader
CountLinesError ==
    /\ pc = "count_lines_loop"
    /\ \E fail \in BOOLEAN :
        LET next == LinesNext(reader[1], fail)
            line_number == total_lines
        IN
        /\ next.tag = "Err"
        /\ Return(LineError(next.kind, line_number))
        /\ trace' = Append(trace, Asked("read", fs[file_path_str], next.kind))
    /\ reader' = Drop(reader)
    /\ UNCHANGED <<args, run, previous, fs, fs_events, metadata, total_lines, empty_lines,
                   non_empty_lines, line_stats, stdout>>

\* line 335: the stream is exhausted; count_lines returns the statistics
\* and drops the reader
CountLinesReturn ==
    /\ pc = "count_lines_loop"
    /\ LinesNext(reader[1], FALSE).tag = "None"
    /\ line_stats' = <<LineStats_new(total_lines, non_empty_lines, empty_lines)>>
    /\ reader' = Drop(reader)
    /\ pc' = "print_analysis_results"
    /\ trace' = Append(trace, Asked("read", fs[file_path_str], "None"))
    /\ UNCHANGED <<args, run, previous, fs, fs_events, metadata, total_lines, empty_lines,
                   non_empty_lines, stdout, stderr, result>>

\* a bug: the percentage line is printed whatever total_lines is
AnalysisOutput_always_percentage(path, meta, stats) ==
    <<Event("complete", ""),
      Event("file", path),
      Event("size", meta.len),
      Event("total_lines", stats.total_lines),
      Event("non_empty_lines", stats.non_empty_lines),
      Event("empty_lines", stats.empty_lines),
      Event("empty_percentage", FormatOneDecimal(empty_percentage(stats)))>>

\* what print_analysis_results prints (lines 352-361)
AnalysisOutput(path, meta, stats) ==
    <<Event("complete", ""),
      Event("file", path),
      Event("size", meta.len),
      Event("total_lines", stats.total_lines),
      Event("non_empty_lines", stats.non_empty_lines),
      Event("empty_lines", stats.empty_lines)>>
    \o (IF stats.total_lines > 0
        THEN <<Event("empty_percentage", FormatOneDecimal(empty_percentage(stats)))>>
        ELSE <<>>)

\* lines 145-147
PrintAnalysisResults ==
    /\ pc = "print_analysis_results"
    /\ stdout' = stdout \o AnalysisOutput(file_path_str, metadata[1], line_stats[1])
    /\ Return(Ok)
    /\ UNCHANGED <<args, run, previous, fs, fs_events, metadata, reader, total_lines, empty_lines,
                   non_empty_lines, line_stats, trace>>

(***************************************************************************)
(* The environment: while the run has not yet opened the file, another    *)
(* process may remove the entry or take the read permission away.  (Once  *)
(* the file is open neither changes what the run reads.)                   *)
(***************************************************************************)
BeforeOpen ==
    pc \in {"main", "validate_file_exists", "validate_not_directory",
            "validate_file_size", "open_file"}

Unlink ==
    /\ BeforeOpen
    /\ fs_events < MaxFsEvents
    /\ \E p \in Paths :
        /\ fs[p].kind # "absent"
        /\ fs' = [fs EXCEPT ![p] = NoEntry]
    /\ fs_events' = fs_events + 1
    /\ UNCHANGED <<args, run, previous, pc, metadata, reader, total_lines, empty_lines,
                   non_empty_lines, line_stats, stdout, stderr, result, trace>>

Revoke ==
    /\ BeforeOpen
    /\ fs_events < MaxFsEvents
    /\ \E p \in Paths :
        /\ fs[p].kind = "file"
        /\ fs[p].readable
        /\ fs' = [fs EXCEPT ![p].readable = FALSE]
    /\ fs_events' = fs_events + 1
    /\ UNCHANGED <<args, run, previous, pc, metadata, reader, total_lines, empty_lines,
                   non_empty_lines, line_stats, stdout, stderr, result, trace>>

\* another process appends a line terminator to the file
AppendLine ==
    /\ BeforeOpen
    /\ fs_events < MaxFsEvents
    /\ \E p \in Paths :
        /\ fs[p].kind = "file"
        /\ fs[p].content.fill = 0
        /\ Len(fs[p].content.bytes) < MaxLen
        /\ fs' = [fs EXCEPT ![p].content.bytes = Append(@, "LF")]
    /\ fs_events' = fs_events + 1
    /\ UNCHANGED <<args, run, previous, pc, metadata, reader, total_lines, empty_lines,
                   non_empty_lines, line_stats, stdout, stderr, result, trace>>

(***************************************************************************)
(* The program is run a second time, with the same arguments: a new       *)
(* process, which starts as the first one did.  The file system is as the  *)
(* first run and the environment left it.  The counters of count_lines     *)
(* are locals that do not exist before lines 318-320 set them: they are    *)
(* left as they are, and nothing may depend on what they hold.             *)
(***************************************************************************)
\* how a run ended: the statistics, or the kind of the failure
Outcome ==
    [ok |-> result[1].ok, kind |-> result[1].err.root.variant, stats |-> line_stats]

\* the system made the open or a read fail for a reason that is not in
\* the file system (an I/O error of the device, ...)
Disturbed == \E i \in 1..Len(trace) : trace[i].answer = "Other"

Rerun ==
    /\ pc = "exit"
    /\ run = 1
    /\ run' = 2
    /\ previous' = <<[outcome |-> Outcome, disturbed |-> Disturbed]>>
    /\ pc' = "main"
    /\ metadata' = <<>>
    /\ reader' = <<>>
    /\ line_stats' = <<>>
    /\ stdout' = <<>>
    /\ stderr' = <<>>
    /\ result' = <<>>
    /\ trace' = <<>>
    /\ UNCHANGED <<args, fs, fs_events, total_lines, empty_lines, non_empty_lines>>

Next ==
    \/ Main
    \/ ValidateFileExists
    \/ ValidateNotDirectory
    \/ ValidateFileSize
    \/ OpenFile
    \/ CountLinesEnter
    \/ CountLinesLine
    \/ CountLinesError
    \/ CountLinesReturn
    \/ PrintAnalysisResults
    \/ Unlink
    \/ Revoke
    \/ AppendLine
    \/ Rerun

Spec == Init /\ [][Next]_vars

\* the steps of the program: a sequential process that runs until main
\* returns
Program ==
    \/ Main
    \/ ValidateFileExists
    \/ ValidateNotDirectory
    \/ ValidateFileSize
    \/ OpenFile
    \/ CountLinesEnter
    \/ CountLinesLine
    \/ CountLinesError
    \/ CountLinesReturn
    \/ PrintAnalysisResults

\* the runs checked for progress: one run of the program, which takes its
\* steps until main returns, on a file system that nothing else changes
FairInit ==
    /\ Init
    /\ \A p \in Paths : Len(fs[p].content.bytes) <= MaxFairLen

FairSpec == FairInit /\ [][Program]_vars /\ WF_vars(Program)

(***************************************************************************)
(* What the properties below speak of.                                     *)
(***************************************************************************)
\* the file the run opened: the content the open call found
Opened == Len(trace) >= 4 /\ trace[4].op = "open" /\ trace[4].answer = "Ok"
Source == trace[4].entry.content

\* the part of the source the reader has handed out so far
Consumed ==
    Text(SubSeq(Source.bytes, 1, Len(Source.bytes) - Len(reader[1].bytes)),
         Source.fill - reader[1].fill)

\* Lines of a text, read off the positions of its terminators: each LF ends
\* a line, and what follows the last LF is a line if it is not empty.
LFPositions(t) == {i \in 1..Len(t.bytes) : t.bytes[i] = "LF"}
LastLF(t) ==
    IF LFPositions(t) = {} THEN 0
    ELSE CHOOSE i \in LFPositions(t) : \A j \in LFPositions(t) : j <= i
LineStart(t, p) ==
    IF \E j \in LFPositions(t) : j < p
    THEN 1 + (CHOOSE j \in LFPositions(t) :
                 j < p /\ \A k \in LFPositions(t) : k < p => k <= j)
    ELSE 1
HasTail(t) == Len(t.bytes) > LastLF(t) \/ t.fill > 0
Visible(t, from, to) == \E i \in from..to : ~is_whitespace(t.bytes[i])
TailVisible(t) == t.fill > 0 \/ Visible(t, LastLF(t) + 1, Len(t.bytes))

NumTerminators(t) == Cardinality(LFPositions(t))
NumLines(t) == NumTerminators(t) + (IF HasTail(t) THEN 1 ELSE 0)
NumVisibleLines(t) ==
    Cardinality({p \in LFPositions(t) : Visible(t, LineStart(t, p), p - 1)})
    + (IF TailVisible(t) THEN 1 ELSE 0)
NumBlankLines(t) ==
    Cardinality({p \in LFPositions(t) : ~Visible(t, LineStart(t, p), p - 1)})
    + (IF HasTail(t) /\ ~TailVisible(t) THEN 1 ELSE 0)

Counting == pc = "count_lines_loop"
Counted == line_stats # <<>>

(***************************************************************************)
(* C1: total_lines = non_empty_lines + empty_lines at every point of the   *)
(* counting pass (before any line is processed, with all three counters    *)
(* zero, and after each line) and in the LineStats count_lines returns.    *)
(***************************************************************************)
C1_TotalIsSum ==
    /\ total_lines = non_empty_lines + empty_lines
    /\ (pc = "count_lines_loop" /\ Consumed = Text(<<>>, 0))
          => (total_lines = 0 /\ non_empty_lines = 0 /\ empty_lines = 0)
    /\ Counted =>
          line_stats[1].total_lines
             = line_stats[1].non_empty_lines + line_stats[1].empty_lines

C1_Witness ==
    /\ Counted
    /\ line_stats[1].total_lines = 3
    /\ line_stats[1].empty_lines = 2
    /\ line_stats[1].non_empty_lines = 1

(***************************************************************************)
(* C2: every line the source produces adds one to total_lines and one to   *)
(* exactly one of empty_lines (nothing is left of the line once white      *)
(* space is stripped from both ends) and non_empty_lines (otherwise): at   *)
(* every point of the pass the counters are the number of lines handed     *)
(* out so far, of those with a character that is not white space, and of   *)
(* those without; the returned counts are these numbers for the whole      *)
(* source.                                                                 *)
(***************************************************************************)
C2_EachLineClassified ==
    /\ Counting =>
          /\ total_lines = NumLines(Consumed)
          /\ non_empty_lines = NumVisibleLines(Consumed)
          /\ empty_lines = NumBlankLines(Consumed)
    /\ Counted =>
          /\ line_stats[1].total_lines = NumLines(Source)
          /\ line_stats[1].non_empty_lines = NumVisibleLines(Source)
          /\ line_stats[1].empty_lines = NumBlankLines(Source)

\* the file "\t\na": a line of white space only, then a line with a letter
C2_Witness ==
    /\ Counted
    /\ Source = Text(<<"TAB", "LF", "a">>, 0)
    /\ line_stats[1] = LineStats_new(2, 1, 1)

(***************************************************************************)
(* C3: total_lines is the number of line terminators of the content, plus  *)
(* one if and only if something follows the last terminator: an empty      *)
(* file gives 0, k terminators alone give k, and N segments without a      *)
(* trailing terminator give N.                                             *)
(***************************************************************************)
C3_TotalCountsTerminators ==
    Counted =>
        /\ line_stats[1].total_lines
             = NumTerminators(Source) + (IF HasTail(Source) THEN 1 ELSE 0)
        /\ TextLen(Source) = 0 => line_stats[1].total_lines = 0
        /\ (\A i \in 1..Len(Source.bytes) : Source.bytes[i] = "LF") /\ Source.fill = 0
              => line_stats[1].total_lines = Len(Source.bytes)

\* the file "\n\ra": two segments, the second unterminated, a CR inside
C3_Witness ==
    /\ Counted
    /\ Source = Text(<<"LF", "CR", "a">>, 0)
    /\ line_stats[1].total_lines = 2

(***************************************************************************)
(* C4: empty_percentage is 0.0 when total_lines = 0, without a division;   *)
(* otherwise it is 100 * empty_lines / total_lines; for the statistics     *)
(* count_lines returns it lies in [0.0, 100.0], is 0 when there is no      *)
(* empty line and 100 when every line is empty.                            *)
(***************************************************************************)
C4_EmptyPercentage ==
    Counted =>
        LET stats == line_stats[1]
            p == empty_percentage(stats)
        IN
        /\ p.class = "finite"
        /\ p.den > 0
        /\ stats.total_lines = 0 => p = F64(0, 1)
        /\ stats.total_lines # 0 =>
              p.num * stats.total_lines = 100 * stats.empty_lines * p.den
        /\ 0 <= p.num /\ p.num <= 100 * p.den
        /\ stats.empty_lines = 0 => p.num = 0
        /\ (stats.total_lines > 0 /\ stats.empty_lines = stats.total_lines)
              => p.num = 100 * p.den

\* two lines in three are empty: 66.6...
C4_Witness ==
    /\ Counted
    /\ line_stats[1].total_lines = 3
    /\ line_stats[1].empty_lines = 2
    /\ FormatOneDecimal(empty_percentage(line_stats[1])).tenths = 667

(***************************************************************************)
(* Validation, in the words of the specification: which check an entry     *)
(* fails.                                                                  *)
(***************************************************************************)
Exited == pc = "exit"
Failed == Exited /\ ~result[1].ok
Checks == 1..(IF Len(trace) < 3 THEN Len(trace) ELSE 3)
ValidationOrder == <<"exists", "is_dir", "metadata">>

\* the entry the i-th check found fails that check
FailsCheck(i) ==
    LET e == trace[i].entry IN
    CASE i = 1 -> e.kind = "absent"
      [] i = 2 -> e.kind = "dir"
      [] i = 3 -> e.kind = "absent" \/ TextLen(e.content) > 104857600

\* the failure the i-th check reports for the entry it found
FailureOfCheck(i) ==
    LET e == trace[i].entry IN
    CASE i = 1 -> Into(FileNotFound(file_path_str))
      [] i = 2 -> Into(IsDirectory(file_path_str))
      [] i = 3 -> IF e.kind = "absent"
                  THEN WithContext(io_Error("NotFound"), "metadata", file_path_str)
                  ELSE Into(FileTooLarge(file_path_str, TextLen(e.content)))

(***************************************************************************)
(* C5: the checks run in the order existence, directory, size; the run     *)
(* fails with the failure of the first check that fails, and asks nothing  *)
(* more of the file system after it (no later check, no open, no read).    *)
(* A path that names nothing gives FileNotFound, a directory IsDirectory.  *)
(***************************************************************************)
C5_ValidationOrder ==
    /\ \A i \in 1..Len(trace) :
          trace[i].op = (IF i <= 3 THEN ValidationOrder[i]
                         ELSE IF i = 4 THEN "open" ELSE "read")
    /\ \A i \in Checks :
          FailsCheck(i) =>
             /\ Len(trace) = i
             /\ Failed
             /\ result[1].err = FailureOfCheck(i)
             /\ metadata = <<>> /\ reader = <<>> /\ line_stats = <<>>
             /\ stdout = <<>>
    /\ (Len(trace) >= 1 /\ trace[1].entry.kind = "absent")
          => Failed /\ result[1].err.root = FileNotFound(file_path_str)
    /\ (Len(trace) >= 2 /\ trace[2].entry.kind = "dir")
          => Failed /\ result[1].err.root = IsDirectory(file_path_str)

\* a directory: refused by the second check, after the first has passed
C5_Witness ==
    /\ Exited
    /\ Len(trace) = 2
    /\ trace[1].entry.kind = "dir"
    /\ result[1].err.root.variant = "IsDirectory"

(***************************************************************************)
(* C6: for an existing entry that is no directory, the size check fails    *)
(* with FileTooLarge, carrying the path and the exact length, if and only  *)
(* if the length is greater than 104,857,600 bytes; a file of exactly      *)
(* 104,857,600 bytes passes; a check that passes returns the metadata.     *)
(***************************************************************************)
C6_SizeLimit ==
    (Len(trace) >= 3 /\ trace[3].entry.kind = "file") =>
        LET n == TextLen(trace[3].entry.content) IN
        /\ n > 104857600 =>
              /\ Failed
              /\ result[1].err = Into(FileTooLarge(file_path_str, n))
              /\ metadata = <<>>
              /\ Len(trace) = 3
        /\ n <= 104857600 =>
              /\ metadata = <<[len |-> n]>>
              /\ Exited => result[1].err.root.variant # "FileTooLarge"

\* a file of exactly 104,857,600 bytes has passed the check
C6_Witness ==
    /\ Len(trace) >= 3
    /\ trace[3].entry.kind = "file"
    /\ TextLen(trace[3].entry.content) = 104857600
    /\ metadata = <<[len |-> 104857600]>>
    /\ pc = "open_file"

(***************************************************************************)
(* Reads: the answers of the calls of Lines::next, trace[5] onwards.       *)
(***************************************************************************)
LastAsked == trace[Len(trace)]
\* the last read failed: an I/O error, or bytes that are not UTF-8
ReadFailed ==
    /\ Len(trace) > 4
    /\ LastAsked.op = "read"
    /\ LastAsked.answer \notin {"Ok", "None"}
NumReads == Len(trace) - 4

StatsTags ==
    {"complete", "file", "size", "total_lines", "non_empty_lines", "empty_lines",
     "empty_percentage"}
StatsPrinted == \E i \in 1..Len(stdout) : stdout[i].tag \in StatsTags

C8_MalformedBytesAreCounted ==
    (Opened /\ Exited /\ ~(ReadFailed /\ LastAsked.answer = "Other")) =>
        /\ result[1].ok
        /\ Counted
        /\ line_stats[1].total_lines = NumLines(Source)

(***************************************************************************)
(* C9: without a file-path argument the run prints the usage line and the  *)
(* example line to standard error, fails with MissingArgument and a        *)
(* non-zero exit status, and asks nothing of the file system: no           *)
(* validation, no open, no count.                                          *)
(***************************************************************************)
C9_MissingArgument ==
    Len(args) < 2 =>
        /\ pc \in {"main", "exit"}
        /\ trace = <<>>
        /\ stdout = <<>>
        /\ metadata = <<>> /\ reader = <<>> /\ line_stats = <<>>
        /\ Exited =>
              /\ result = <<Err(Into(MissingArgument))>>
              /\ ExitStatus(result[1]) # 0
              /\ \E i \in 1..Len(stderr) : stderr[i] = Event("usage", args[1])
              /\ \E i \in 1..Len(stderr) : stderr[i] = Event("example", args[1])

C9_Witness ==
    /\ Len(args) < 2
    /\ Exited
    /\ ExitStatus(result[1]) = 1
    /\ Len(stderr) = 4

(***************************************************************************)
(* C10: every failure (missing argument, a validation check, the open, a   *)
(* read during the count) ends the run with a non-zero exit status and no  *)
(* statistics line printed; the exit status is 0 only when the three       *)
(* checks, the open and the count have succeeded and the statistics have   *)
(* been printed.                                                           *)
(***************************************************************************)
SomethingFailed ==
    \/ Len(args) < 2
    \/ \E i \in Checks : FailsCheck(i)
    \/ Len(trace) >= 4 /\ trace[4].answer # "Ok"
    \/ ReadFailed

C10_FailureMeansNonZeroExit ==
    /\ ~Exited => ~StatsPrinted
    /\ Exited =>
          /\ SomethingFailed =>
                /\ ExitStatus(result[1]) # 0
                /\ ~StatsPrinted
                /\ stderr # <<>>
          /\ ExitStatus(result[1]) = 0 =>
                /\ ~SomethingFailed
                /\ Len(trace) >= 5
                /\ \A i \in Checks : ~FailsCheck(i)
                /\ Opened
                /\ LastAsked = Asked("read", fs[file_path_str], "None")
                /\ Counted
                /\ SubSeq(stdout, 2, Len(stdout))
                     = AnalysisOutput(file_path_str, metadata[1], line_stats[1])
                /\ stderr = <<>>

\* a read fails after a line has been counted: exit status 1, nothing of
\* the counts on standard output
C10_Witness ==
    /\ Exited
    /\ ReadFailed
    /\ total_lines >= 1
    /\ ExitStatus(result[1]) = 1
    /\ stdout = <<Event("processing", file_path_str)>>

(***************************************************************************)
(* C11: on a successful run the output is, in this order: the processing   *)
(* line, the completion marker, the file path, the byte size, the total    *)
(* line count, the non-empty line count, the empty line count, and last    *)
(* the percentage of empty lines, which is there if and only if            *)
(* total_lines > 0.  (The output of a run that is not over is a prefix of  *)
(* that sequence.)                                                         *)
(***************************************************************************)
Tags(out) == [i \in 1..Len(out) |-> out[i].tag]
OutputOrder ==
    <<"processing", "complete", "file", "size", "total_lines", "non_empty_lines",
      "empty_lines", "empty_percentage">>

C11_OutputOrder ==
    /\ Len(stdout) <= Len(OutputOrder)
    /\ Tags(stdout) = SubSeq(OutputOrder, 1, Len(stdout))
    /\ (Exited /\ result[1].ok) =>
          /\ Len(stdout) = (IF line_stats[1].total_lines > 0 THEN 8 ELSE 7)
          /\ stdout[1].val = file_path_str
          /\ stdout[3].val = file_path_str
          /\ stdout[4].val = metadata[1].len
          /\ stdout[5].val = line_stats[1].total_lines
          /\ stdout[6].val = line_stats[1].non_empty_lines
          /\ stdout[7].val = line_stats[1].empty_lines

\* an empty file: seven lines, the last one the empty line count
C11_Witness ==
    /\ Exited
    /\ result[1].ok
    /\ line_stats[1].total_lines = 0
    /\ Len(stdout) = 7
    /\ stdout[7] = Event("empty_lines", 0)

(***************************************************************************)
(* C12: when the open fails after the three checks have passed, the run    *)
(* fails with FileNotFound if the system reports that there is no such     *)
(* entry, PermissionDenied if it denies access, and FileReadError for any  *)
(* other failure, each with the path; the count never starts.              *)
(***************************************************************************)
OpenFailed == Len(trace) >= 4 /\ trace[4].op = "open" /\ trace[4].answer # "Ok"

C12_OpenFailure ==
    OpenFailed =>
        /\ \A i \in 1..3 : ~FailsCheck(i)
        /\ Failed
        /\ result[1].err.root.type = "LineCounterError"
        /\ result[1].err.root.path = file_path_str
        /\ result[1].err.root.variant
             = (CASE trace[4].answer = "NotFound" -> "FileNotFound"
                  [] trace[4].answer = "PermissionDenied" -> "PermissionDenied"
                  [] OTHER -> "FileReadError")
        /\ trace[4].entry.kind = "absent" => trace[4].answer = "NotFound"
        /\ (trace[4].entry.kind # "absent" /\ ~trace[4].entry.readable)
              => trace[4].answer = "PermissionDenied"
        /\ Len(trace) = 4
        /\ reader = <<>>
        /\ line_stats = <<>>
        /\ ~StatsPrinted

\* the entry has passed the checks and is gone when the file is opened
C12_Witness ==
    /\ OpenFailed
    /\ trace[3].entry.kind = "file"
    /\ trace[4].entry.kind = "absent"
    /\ result[1].err.root = FileNotFound(file_path_str)

(***************************************************************************)
(* C13: the program run twice with the same argument on a file that        *)
(* nothing has changed ends the same way both times: the same total,       *)
(* non-empty and empty line counts, or the same kind of failure.  Nothing  *)
(* of the first run reaches the second.  (Both runs are runs in which the  *)
(* system itself does not fail an open or a read of the unchanged file.)   *)
(***************************************************************************)
SecondRunOver == run = 2 /\ Exited
Unmodified == fs_events = 0

CounterStart == Counting /\ NumReads = 0
CounterReading == Counting /\ NumReads > 0
CounterFinished == Counted
CounterFailed == ReadFailed

\* Start has zero counts; there is one Reading step per line handed out;
\* Finished is reached by the read that finds the source exhausted, with
\* every line of the source counted once
CounterStates ==
    /\ CounterStart => (total_lines = 0 /\ non_empty_lines = 0 /\ empty_lines = 0)
    /\ Counting =>
          /\ total_lines = NumReads
          /\ NumReads = NumLines(Consumed)
          /\ \A i \in 5..Len(trace) : trace[i].answer = "Ok"
    /\ CounterFinished =>
          /\ trace[Len(trace)].answer = "None"
          /\ \A i \in 5..(Len(trace) - 1) : trace[i].answer = "Ok"
          /\ Len(trace) - 5 = NumLines(Source)
          /\ line_stats[1].total_lines = NumLines(Source)
    /\ CounterFailed =>
          /\ line_stats = <<>>
          /\ \A i \in 5..(Len(trace) - 1) : trace[i].answer = "Ok"

\* a step of the Counter: it reads one more line, or finishes, or fails
\* with the error of a read; once Finished or Failed it stays so
CounterSteps ==
    /\ (pc = "count_lines") => CounterStart'
    /\ Counting =>
          \/ CounterReading' /\ NumReads' = NumReads + 1
                             /\ total_lines' = total_lines + 1
          \/ CounterFinished' /\ pc' = "print_analysis_results"
                              /\ line_stats'[1].total_lines = total_lines
          \/ CounterFailed' /\ Exited'
    /\ (~Counting /\ Counting') => pc = "count_lines"
    /\ (CounterFinished /\ run' = run) =>
          (CounterFinished' /\ line_stats' = line_stats /\ trace' = trace)
    /\ (CounterFailed /\ run' = run) => (CounterFailed' /\ trace' = trace)

(***************************************************************************)
(* C14: the Counter goes Start -> Reading -> Finished or Failed.  It       *)
(* starts with all counts zero, takes one Reading step per line, reaches   *)
(* Finished only when the source is exhausted (every line counted once,    *)
(* no cap and no early exit) and Failed only on a read error; Finished     *)
(* and Failed are terminal; a pass that has started ends in one of them.   *)
(***************************************************************************)
C14_CounterStateMachine ==
    /\ []CounterStates
    /\ [][CounterSteps]_vars
    /\ (pc = "count_lines") ~> (CounterFinished \/ CounterFailed)

\* Finished after two Reading steps
C14_Witness ==
    /\ CounterFinished
    /\ pc = "print_analysis_results"
    /\ Len(trace) = 7
    /\ total_lines = 2

(***************************************************************************)
(* The file handle: `reader` holds the open files of the process.          *)
(***************************************************************************)
HandleOpen == reader # <<>>
OpenCalls == {i \in 1..Len(trace) : trace[i].op = "open"}
ValidationPassed ==
    /\ Len(trace) >= 3
    /\ \A i \in 1..3 : trace[i].op = ValidationOrder[i] /\ ~FailsCheck(i)
ValidationFailed == Exited /\ \E i \in Checks : FailsCheck(i)

(***************************************************************************)
(* C15: the file is opened only after the three checks have passed; at     *)
(* most one handle is open at any time, and only while count_lines runs;   *)
(* count_lines releases it when it returns, with the LineStats and with a  *)
(* read failure alike; when the run is over no handle is open, and a run   *)
(* that failed a check never opened the file.                              *)
(***************************************************************************)
C15_HandleLifecycle ==
    /\ Len(reader) <= 1
    /\ OpenCalls # {} => (OpenCalls = {4} /\ ValidationPassed)
    /\ HandleOpen =>
          /\ Opened
          /\ pc \in {"count_lines", "count_lines_loop"}
    /\ (Counted \/ ReadFailed) => ~HandleOpen
    /\ Exited => ~HandleOpen
    /\ ValidationFailed => (OpenCalls = {} /\ ~HandleOpen)

\* the run is over after a line was counted and the next read failed: the
\* file it had opened is closed
C15_Witness ==
    /\ Exited
    /\ Opened
    /\ ReadFailed
    /\ Len(trace) = 6
    /\ ~HandleOpen

(***************************************************************************)
(* Sizes: what the size check found and what the pass read.                *)
(***************************************************************************)
\* the content the size check measured is the content the pass read
SizeStable ==
    /\ Opened
    /\ trace[3].op = "metadata"
    /\ trace[3].entry.kind = "file"
    /\ trace[3].entry.content = Source
\* a count fits an unsigned integer of 32 bits (below 65536 * 65536)
FitsU32(n) == n >= 0 /\ n \div 65536 < 65536

(***************************************************************************)
(* C16: for a file whose content is the same at the size check and during  *)
(* the pass, every line counted has consumed at least one byte, so the     *)
(* total_lines returned and printed is at most the byte size measured and  *)
(* printed, which is at most MAX_FILE_SIZE; none of the three counters     *)
(* leaves the range of a 32-bit unsigned integer.                          *)
(***************************************************************************)
C16_LinesBoundedBySize ==
    /\ (Counting /\ SizeStable) =>
          /\ total_lines <= TextLen(Consumed)
          /\ TextLen(Consumed) <= metadata[1].len
          /\ FitsU32(total_lines) /\ FitsU32(non_empty_lines) /\ FitsU32(empty_lines)
    /\ (Counted /\ SizeStable) =>
          /\ metadata[1].len = TextLen(Source)
          /\ line_stats[1].total_lines <= metadata[1].len
          /\ metadata[1].len <= MAX_FILE_SIZE
          /\ FitsU32(line_stats[1].total_lines)
          /\ FitsU32(line_stats[1].non_empty_lines)
          /\ FitsU32(line_stats[1].empty_lines)
    /\ (Counted /\ SizeStable /\ Exited) =>
          /\ stdout[4].tag = "size" /\ stdout[5].tag = "total_lines"
          /\ stdout[5].val <= stdout[4].val
          /\ stdout[4].val <= MAX_FILE_SIZE

\* three bytes, three lines: each line is its terminator alone
C16_Witness ==
    /\ Counted
    /\ SizeStable
    /\ Exited
    /\ metadata[1].len = 3
    /\ line_stats[1].total_lines = 3

\* the largest file the size check lets through has been counted
C16_WitnessLargest ==
    /\ Counted
    /\ SizeStable
    /\ metadata[1].len = MAX_FILE_SIZE

====
